---- MODULE Spec2Model ----
(***************************************************************************)
(* A model of json_logging/__init__.py: the framework registry, the        *)
(* one-time initialisation guard, request instrumentation set-up and the   *)
(* formatter pipeline.                                                     *)
(*                                                                         *)
(* Python values are modelled as follows.                                  *)
(*   - a str is a sequence of one-character strings, so that str.lower()   *)
(*     is computed character by character;                                 *)
(*   - None, where a str is expected, is the one-element sequence NoName;  *)
(*   - a class is the string of its name, the None class reference is the  *)
(*     string "None";                                                      *)
(*   - an optional dict (None or a dict) is << >> or << d >>;              *)
(*   - a dict is a function on its key set.                                *)
(***************************************************************************)
EXTENDS Integers, Sequences, FiniteSets, TLC

VARIABLES
    env_toggle,               \* is_env_var_toggle("ENABLE_JSON_LOGGING") at import
    ENABLE_JSON_LOGGING,      \* module global
    _framework_support_map,   \* module global: lower-cased name -> entry
    _current_framework,       \* module global: None or a registry entry
    _request_util,            \* module global: None or the RequestUtil
    _default_formatter,       \* module global: None or a formatter class
    logging_defaultFormatter, \* logging._defaultFormatter: class of the instance
    app_handlers,             \* formatter of each handler of the existing app logger
    app_configured,           \* the framework's app_configurator().config() ran
    request_logger,           \* the dedicated request logger
    hooks_installed,          \* the instrumentation configurator's config() ran
    request,                  \* the framework's native request object in flight
    dto,                      \* None or the request's DefaultRequestResponseDTO
    log_object,               \* None or the object the last format call assembled
    uuid_count,               \* correlation ids generated so far
    last,                     \* the most recent call: operation, arguments, outcome
    init_done,                \* history: some __init call has completed
    init_failed,              \* history: an __init call failed before any completed
    reg_log,                  \* history: the successful register calls, in order
    COMPONENT_ID,             \* module global
    COMPONENT_NAME,           \* module global
    COMPONENT_INSTANCE_INDEX, \* module global
    base_object_common,       \* class attribute of BaseJSONFormatter
    formatter_instances       \* the formatters the application constructed, each
                              \* with the fields configured at its construction

vars == << env_toggle, ENABLE_JSON_LOGGING, _framework_support_map,
           _current_framework, _request_util, _default_formatter,
           logging_defaultFormatter, app_handlers, app_configured,
           request_logger, hooks_installed, request, dto, log_object,
           uuid_count, last, init_done, init_failed, reg_log,
           COMPONENT_ID, COMPONENT_NAME, COMPONENT_INSTANCE_INDEX,
           base_object_common, formatter_instances >>

\* the variables of the registry and the initialisation guard
registry_vars == << env_toggle, ENABLE_JSON_LOGGING, _framework_support_map,
                    _current_framework, _request_util, _default_formatter,
                    logging_defaultFormatter, app_handlers, app_configured,
                    request_logger, hooks_installed, init_done, init_failed, reg_log >>

\* the component identity settings and the formatters constructed under them
component_vars == << COMPONENT_ID, COMPONENT_NAME, COMPONENT_INSTANCE_INDEX >>

\* every variable a request leaves alone
setup_vars == << registry_vars, component_vars, base_object_common, formatter_instances >>

\* the variables of one request and its log line
request_vars == << request, dto, log_object, uuid_count >>

----------------------------------------------------------------------------
(* Bounds of the model *)

\* successful register calls after import
MaxRegister == 2
\* successful init_request_instrument calls
MaxInstrument == 2
\* correlation ids generated
MaxUuid == 2
\* whole seconds of a time delta
MaxSeconds == 2
\* formatters the application constructs itself
MaxFormatters == 2

----------------------------------------------------------------------------
(* Python values *)

None == << >>
Some(x) == << x >>
NoName == << "<None>" >>

\* truth value of an optional str: None and '' are false
Truthy(s) == s # NoName /\ s # << >>

LowerChar(c) ==
    CASE c = "F" -> "f" [] c = "L" -> "l" [] c = "A" -> "a"
      [] c = "S" -> "s" [] c = "K" -> "k" [] c = "N" -> "n"
      [] c = "I" -> "i" [] c = "C" -> "c" [] c = "X" -> "x"
      [] OTHER -> c

\* str.lower()
Lower(s) == [i \in DOMAIN s |-> LowerChar(s[i])]

\* d1.update(d2) on dicts
Update(d1, d2) ==
    [k \in (DOMAIN d1) \cup (DOMAIN d2) |-> IF k \in DOMAIN d2 THEN d2[k] ELSE d1[k]]

----------------------------------------------------------------------------
(* Classes *)

RequestAdapters == {"FlaskRequestAdapter", "SanicRequestAdapter", "QuartRequestAdapter",
                    "ConnexionRequestAdapter", "FastAPIRequestAdapter",
                    "CustomRequestAdapter"}
ResponseAdapters == {"FlaskResponseAdapter", "SanicResponseAdapter", "QuartResponseAdapter",
                     "ConnexionResponseAdapter", "FastAPIResponseAdapter",
                     "CustomResponseAdapter"}
InstrumentationConfigurators ==
    {"FlaskAppRequestInstrumentationConfigurator", "SanicAppRequestInstrumentationConfigurator",
     "QuartAppRequestInstrumentationConfigurator",
     "ConnexionAppRequestInstrumentationConfigurator",
     "FastAPIAppRequestInstrumentationConfigurator", "CustomInstrumentationConfigurator"}
FrameworkConfigurators == {"SanicAppConfigurator", "CustomAppConfigurator"}
Formatters == {"BaseJSONFormatter", "JSONRequestLogFormatter", "JSONLogFormatter",
               "JSONLogWebFormatter", "CustomFormatter"}
DTOClasses == {"RequestResponseDTOBase", "DefaultRequestResponseDTO", "CustomDTO"}

\* issubclass(cls, base)
IsSubclass(cls, base) ==
    CASE base = "RequestAdapter" -> cls \in RequestAdapters
      [] base = "ResponseAdapter" -> cls \in ResponseAdapters
      [] base = "AppRequestInstrumentationConfigurator" -> cls \in InstrumentationConfigurators
      [] base = "FrameworkConfigurator" -> cls \in FrameworkConfigurators
      [] base = "logging.Formatter" -> cls \in Formatters
      [] base = "RequestResponseDTOBase" -> cls \in DTOClasses
      [] OTHER -> FALSE

\* util.validate_subclass(cls, base): TRUE when it raises
validate_subclass_raises(cls, base) == ~IsSubclass(cls, base)

----------------------------------------------------------------------------
(* Names used in the model *)

flask == << "f", "l", "a", "s", "k" >>
sanic == << "s", "a", "n", "i", "c" >>
quart == << "q", "u", "a", "r", "t" >>
connexion == << "c", "o", "n", "n", "e", "x", "i", "o", "n" >>

Entry(ac, irc, rq, rs) ==
    [app_configurator |-> ac,
     app_request_instrumentation_configurator |-> irc,
     request_adapter_class |-> rq,
     response_adapter_class |-> rs]

\* the registrations made while the module is imported (lines 413-460); the
\* fastapi package is taken to be absent, so line 466 registers nothing
ImportedRegistry ==
       (flask :> Entry("None", "FlaskAppRequestInstrumentationConfigurator",
                       "FlaskRequestAdapter", "FlaskResponseAdapter"))
    @@ (sanic :> Entry("SanicAppConfigurator",
                       "SanicAppRequestInstrumentationConfigurator",
                       "SanicRequestAdapter", "SanicResponseAdapter"))
    @@ (quart :> Entry("None", "QuartAppRequestInstrumentationConfigurator",
                       "QuartRequestAdapter", "QuartResponseAdapter"))
    @@ (connexion :> Entry("None", "ConnexionAppRequestInstrumentationConfigurator",
                           "ConnexionRequestAdapter", "ConnexionResponseAdapter"))

\* arguments tried by the model
FLASK == << "F", "L", "A", "S", "K" >>
ValidClasses ==
    { << "None", "CustomInstrumentationConfigurator", "CustomRequestAdapter", "CustomResponseAdapter" >>,
      << "CustomAppConfigurator", "CustomInstrumentationConfigurator", "CustomRequestAdapter", "CustomResponseAdapter" >> }
InvalidClasses ==
    { << "object", "CustomInstrumentationConfigurator", "CustomRequestAdapter", "CustomResponseAdapter" >>,
      << "None", "object", "CustomRequestAdapter", "CustomResponseAdapter" >>,
      << "None", "CustomInstrumentationConfigurator", "CustomResponseAdapter", "CustomResponseAdapter" >>,
      << "None", "CustomInstrumentationConfigurator", "CustomRequestAdapter", "object" >> }
RegisterNames == {NoName, << >>, FLASK, << "x" >>, << "X" >>}
LookupNames == {<< "F", "l", "a", "s", "k" >>, << "x" >>, << "X" >>}
RegisterClasses == ValidClasses \cup InvalidClasses
InitNames == {NoName, << >>, FLASK, sanic, << "x" >>}
FormatterArgs == {"None", "CustomFormatter", "object"}
DTOArgs == {"DefaultRequestResponseDTO", "object"}

NoCall == [op |-> "import", err |-> "", name |-> NoName, cls |-> << >>, enable_json |-> FALSE]
Call(op, err, name, cls, ej) ==
    [op |-> op, err |-> err, name |-> name, cls |-> cls, enable_json |-> ej]
\* a call that returns a value: result is None when it raised
Returned(op, err, cls, result) ==
    [op |-> op, err |-> err, name |-> NoName, cls |-> cls, enable_json |-> FALSE,
     result |-> result]

----------------------------------------------------------------------------
(* get_request_logger *)

\* the _instance attribute of the configurator class of the active framework:
\* None until the class was instantiated (line 243), then the instance, whose
\* request_logger is the dedicated request logger
configurator_instance == IF hooks_installed THEN Some(request_logger) ELSE None

\* get_request_logger_error without the check of the instance at line 261
get_request_logger_error_unchecked(current_framework, instance) ==
    IF current_framework = None THEN "RuntimeError" ELSE ""

\* lines 255-262: the exception raised, "" when the logger is returned
get_request_logger_error(current_framework, instance) ==
    IF current_framework = None THEN "RuntimeError"
    ELSE IF instance = None THEN "RuntimeError"
    ELSE ""

\* lines 254-264
get_request_logger ==
    LET instance == configurator_instance
        err == get_request_logger_error(_current_framework, instance)
    IN  /\ last' = Returned("get_request_logger", err, << >>,
                            IF err = "" THEN instance ELSE None)
        /\ UNCHANGED << setup_vars, request_vars >>

----------------------------------------------------------------------------
(* Values carried by records, carriers and log objects: a value is tagged   *)
(* with its Python type                                                     *)

Str(s) == [t |-> "str", v |-> s]
Num(n) == [t |-> "int", v |-> n]
Dict(d) == [t |-> "dict", v |-> d]
Obj(s) == [t |-> "object", v |-> s]
IsoTime(us) == [t |-> "isotime", v |-> us]
Uuid(n) == [t |-> "uuid", v |-> n]
EmptyDict == << >>

\* line 20
EMPTY_VALUE == "-"
\* line 21
CREATE_CORRELATION_ID_IF_NOT_EXISTS == TRUE
\* line 23
CORRELATION_ID_HEADERS == << "X-Correlation-ID", "X-Request-ID" >>

\* lines 30-37 and 47
RECORD_ATTR_SKIP_LIST ==
    {"asctime", "created", "exc_info", "exc_text", "filename", "args", "funcName", "id",
     "levelname", "levelno", "lineno", "module", "msg", "msecs", "message", "name",
     "pathname", "process", "processName", "relativeCreated", "thread", "threadName",
     "extra", "props", "stack_info"}

\* line 48
EASY_TYPES == {"str", "bool", "dict", "float", "int", "list", "NoneType"}

\* repr(value): a str
Repr(value) == [t |-> "str", v |-> value.v]

\* the attributes logging.LogRecord.__init__ sets
LogRecordAttrs ==
    {"name", "msg", "args", "levelname", "levelno", "pathname", "filename", "module",
     "exc_info", "exc_text", "stack_info", "lineno", "funcName", "created", "msecs",
     "relativeCreated", "thread", "threadName", "processName", "process"}

\* record.__dict__: the attributes of a LogRecord, the entries of extra=, and
\* props when given
record_dict(record) ==
    LET std == [k \in LogRecordAttrs |-> Obj("attr")]
        withExtra == Update(std, record.extra)
    IN  IF record.props = None THEN withExtra
        ELSE Update(withExtra, "props" :> record.props[1])

----------------------------------------------------------------------------
(* BaseJSONFormatter.__init__ and the component identity settings *)

\* bool(value) of a str or an int
ValueTruthy(value) ==
    CASE value.t = "str" -> value.v # ""
      [] value.t = "int" -> value.v # 0
      [] OTHER -> TRUE

\* lines 275-280: the class attribute base_object_common after one
\* construction under the settings id, name and idx
BaseJSONFormatter_init(common, id, name, idx) ==
    LET put(c, key, value) ==
            IF ValueTruthy(value) /\ value # Str(EMPTY_VALUE)
            THEN Update(c, key :> value) ELSE c
    IN  put(put(put(common, "component_id", id), "component_name", name),
            "component_instance_idx", idx)

\* the classes whose construction runs BaseJSONFormatter.__init__
JSONFormatters == {"BaseJSONFormatter", "JSONRequestLogFormatter", "JSONLogFormatter",
                   "JSONLogWebFormatter"}

\* base_object_common after cls() was called
constructed(cls) ==
    IF cls \in JSONFormatters
    THEN BaseJSONFormatter_init(base_object_common, COMPONENT_ID, COMPONENT_NAME,
                                COMPONENT_INSTANCE_INDEX)
    ELSE base_object_common

\* the application assigns the three module globals
set_component(id, name, idx) ==
    /\ COMPONENT_ID' = id
    /\ COMPONENT_NAME' = name
    /\ COMPONENT_INSTANCE_INDEX' = idx
    /\ last' = Call("set_component", "", NoName, << id, name, idx >>, FALSE)
    /\ UNCHANGED << registry_vars, request_vars, base_object_common, formatter_instances >>

\* the application constructs a formatter: cls()
construct_formatter(cls) ==
    /\ Len(formatter_instances) < MaxFormatters
    /\ base_object_common' = constructed(cls)
    /\ formatter_instances' =
           Append(formatter_instances,
                  [cls |-> cls,
                   configured |-> BaseJSONFormatter_init(EmptyDict, COMPONENT_ID,
                                                         COMPONENT_NAME,
                                                         COMPONENT_INSTANCE_INDEX)])
    /\ last' = Call("construct_formatter", "", NoName, << cls >>, FALSE)
    /\ UNCHANGED << registry_vars, request_vars, component_vars >>

----------------------------------------------------------------------------
(* register_framework_support *)

\* register_error without the check of the name at lines 78-79
register_error_unnamed(name, app_configurator, app_request_instrumentation_configurator, request_adapter_class, response_adapter_class) ==
    IF validate_subclass_raises(request_adapter_class, "RequestAdapter")
       \/ validate_subclass_raises(response_adapter_class, "ResponseAdapter")
       \/ validate_subclass_raises(app_request_instrumentation_configurator,
                                   "AppRequestInstrumentationConfigurator")
       \/ (app_configurator # "None"
           /\ validate_subclass_raises(app_configurator, "FrameworkConfigurator"))
    THEN "RuntimeError"
    ELSE ""

\* lines 78-85: the exception the checks raise, "" when they pass
register_error(name, app_configurator, app_request_instrumentation_configurator, request_adapter_class, response_adapter_class) ==
    IF ~Truthy(name) THEN "RuntimeError"
    ELSE IF validate_subclass_raises(request_adapter_class, "RequestAdapter")
         THEN "RuntimeError"
    ELSE IF validate_subclass_raises(response_adapter_class, "ResponseAdapter")
         THEN "RuntimeError"
    ELSE IF validate_subclass_raises(app_request_instrumentation_configurator,
                                     "AppRequestInstrumentationConfigurator")
         THEN "RuntimeError"
    ELSE IF app_configurator # "None"
            /\ validate_subclass_raises(app_configurator, "FrameworkConfigurator")
         THEN "RuntimeError"
    ELSE ""

\* registry_key without name.lower()
registry_key_as_given(name) == name

\* line 87: the key a name is stored under
registry_key(name) == Lower(name)

\* lines 87-95: _framework_support_map[name.lower()] = {...}
registry_put(map, name, entry) == Update(map, registry_key(name) :> entry)

register_framework_support(name, ac, irc, rq, rs) ==
    LET err == register_error(name, ac, irc, rq, rs)
    IN  /\ err = "" => Len(reg_log) < MaxRegister
        /\ _framework_support_map' =
               IF err = "" THEN registry_put(_framework_support_map, name, Entry(ac, irc, rq, rs))
               ELSE _framework_support_map
        /\ reg_log' = IF err = ""
                      THEN Append(reg_log, [name |-> name, entry |-> Entry(ac, irc, rq, rs)])
                      ELSE reg_log
        /\ last' = Call("register", err, name, << ac, irc, rq, rs >>, FALSE)
        /\ UNCHANGED << env_toggle, ENABLE_JSON_LOGGING, _current_framework, _request_util,
                        _default_formatter, logging_defaultFormatter, app_handlers,
                        app_configured, request_logger, hooks_installed, init_done,
                        init_failed, request_vars, component_vars, base_object_common,
                        formatter_instances >>

----------------------------------------------------------------------------
(* __init, reached through init_non_web, init_flask, init_sanic, ... *)

\* util.update_formatter_for_loggers on one logger's handlers: every handler
\* gets an instance of the formatter class
update_formatter_for_handlers(handlers, formatter) ==
    [i \in DOMAIN handlers |-> formatter]

\* line 179: the flag is overwritten by the argument on entry
flag_on_entry(current, enable_json) == enable_json

\* init_error without the check of custom_formatter at lines 183-185
init_error_any_formatter(current_framework, map, framework_name, custom_formatter) ==
    IF current_framework # None THEN "RuntimeError"
    ELSE IF Truthy(framework_name) /\ Lower(framework_name) \notin DOMAIN map
         THEN "RuntimeError"
    ELSE ""

\* lines 180-192: the exception raised, "" when the call goes through
init_error(current_framework, map, framework_name, custom_formatter) ==
    IF current_framework # None THEN "RuntimeError"
    ELSE IF custom_formatter # "None" /\ ~IsSubclass(custom_formatter, "logging.Formatter")
         THEN "ValueError"
    ELSE IF Truthy(framework_name) /\ Lower(framework_name) \notin DOMAIN map
         THEN "RuntimeError"
    ELSE ""

\* select_formatter with the two default classes exchanged
select_formatter_swapped(custom_formatter, web) ==
    IF custom_formatter # "None" THEN custom_formatter
    ELSE IF web THEN "JSONLogFormatter" ELSE "JSONLogWebFormatter"

\* lines 202 and 204
select_formatter(custom_formatter, web) ==
    IF custom_formatter # "None" THEN custom_formatter
    ELSE IF web THEN "JSONLogWebFormatter" ELSE "JSONLogFormatter"

\* line 206, negated: the branch that turns JSON mode on
json_enabled(enable_json, flag) == ~(~enable_json /\ ~flag)

init(framework_name, custom_formatter, enable_json) ==
    LET flag == flag_on_entry(ENABLE_JSON_LOGGING, enable_json)
        err == init_error(_current_framework, _framework_support_map, framework_name,
                          custom_formatter)
        web == Truthy(framework_name)
        entry == _framework_support_map[Lower(framework_name)]
        formatter == select_formatter(custom_formatter, web)
        json == json_enabled(enable_json, flag)
    IN  /\ last' = Call("init", err, framework_name, << custom_formatter >>, enable_json)
        /\ IF err # ""
           THEN /\ ENABLE_JSON_LOGGING' = flag
                /\ init_failed' = (init_failed \/ ~init_done)
                /\ UNCHANGED << _current_framework, _request_util, _default_formatter,
                                logging_defaultFormatter, app_handlers, app_configured,
                                request_logger, init_done, base_object_common >>
           ELSE /\ _current_framework' = IF web THEN Some(entry) ELSE _current_framework
                /\ _request_util' =
                       IF web
                       THEN Some([request_adapter_class |-> entry.request_adapter_class,
                                  response_adapter_class |-> entry.response_adapter_class])
                       ELSE _request_util
                /\ app_configured' =
                       (app_configured \/ (web /\ flag /\ entry.app_configurator # "None"))
                /\ _default_formatter' = Some(formatter)
                /\ ENABLE_JSON_LOGGING' = (IF json THEN TRUE ELSE flag)
                /\ logging_defaultFormatter' =
                       IF json THEN formatter ELSE logging_defaultFormatter
                /\ app_handlers' = update_formatter_for_handlers(app_handlers, formatter)
                /\ request_logger' =
                       [request_logger EXCEPT
                            !.handlers = update_formatter_for_handlers(@, formatter)]
                /\ base_object_common' =
                       IF json \/ app_handlers # << >> \/ request_logger.handlers # << >>
                       THEN constructed(formatter) ELSE base_object_common
                /\ init_done' = TRUE
                /\ UNCHANGED init_failed
        /\ UNCHANGED << env_toggle, _framework_support_map, hooks_installed, reg_log,
                        request_vars, component_vars, formatter_instances >>

----------------------------------------------------------------------------
(* init_request_instrument *)

\* not_initialised with only the comparison to '-'
not_initialised_dash_only(current_framework) == current_framework # None /\ FALSE

\* line 232: _current_framework is None or _current_framework == '-'; the
\* variable only ever holds None or a registry entry (a dict), and a dict
\* never equals the str '-'
not_initialised(current_framework) ==
    current_framework = None \/ (current_framework # None /\ FALSE)

\* lines 232-241, and the subscript of None at line 243
instrument_error(current_framework, custom_formatter, dto_class) ==
    IF not_initialised(current_framework) THEN "RuntimeError"
    ELSE IF custom_formatter # "None" /\ ~IsSubclass(custom_formatter, "logging.Formatter")
         THEN "ValueError"
    ELSE IF ~IsSubclass(dto_class, "RequestResponseDTOBase") THEN "ValueError"
    ELSE IF current_framework = None THEN "TypeError"
    ELSE ""

\* request_formatter that ignores the custom class
request_formatter_default_only(custom_formatter) == "JSONRequestLogFormatter"

\* line 246
request_formatter(custom_formatter) ==
    IF custom_formatter # "None" THEN custom_formatter ELSE "JSONRequestLogFormatter"

init_request_instrument(custom_formatter, dto_class) ==
    LET err == instrument_error(_current_framework, custom_formatter, dto_class)
        formatter == request_formatter(custom_formatter)
    IN  /\ err = "" => Len(request_logger.handlers) < MaxInstrument
        /\ last' = Call("init_request_instrument", err, NoName,
                        << custom_formatter, dto_class >>, FALSE)
        /\ IF err # ""
           THEN UNCHANGED << request_logger, hooks_installed, base_object_common >>
           ELSE /\ hooks_installed' = TRUE
                /\ base_object_common' = constructed(formatter)
                /\ request_logger' =
                       [level |-> "DEBUG",
                        handlers |-> update_formatter_for_handlers(
                                         Append(request_logger.handlers, "None"), formatter),
                        parent |-> "None"]
        /\ UNCHANGED << env_toggle, ENABLE_JSON_LOGGING, _framework_support_map,
                        _current_framework, _request_util, _default_formatter,
                        logging_defaultFormatter, app_handlers, app_configured,
                        init_done, init_failed, reg_log, request_vars, component_vars,
                        formatter_instances >>

----------------------------------------------------------------------------
(* The request and response adapters and the resolver of util.RequestUtil   *)

NoRequest ==
    [correlation_id |-> None, headers |-> EmptyDict, content_length |-> "-"]

get_http_header(req, name, default) ==
    IF name \in DOMAIN req.headers THEN Str(req.headers[name]) ELSE default

\* util.parse_int(value, default)
parse_int(value, default) ==
    CASE value = "0" -> 0 [] value = "12" -> 12 [] OTHER -> default

\* the first configured header that is present and not empty, 0 when none is
first_header(req) ==
    LET present == {i \in DOMAIN CORRELATION_ID_HEADERS :
                        /\ CORRELATION_ID_HEADERS[i] \in DOMAIN req.headers
                        /\ req.headers[CORRELATION_ID_HEADERS[i]] # ""}
    IN  IF present = {} THEN 0
        ELSE CHOOSE i \in present : \A j \in present : i <= j

\* RequestUtil.get_correlation_id(request): is a new id generated
resolve_generates(req) ==
    /\ req.correlation_id = None
    /\ first_header(req) = 0
    /\ CREATE_CORRELATION_ID_IF_NOT_EXISTS

\* RequestUtil.get_correlation_id(request): the id returned
resolve(req, count) ==
    IF req.correlation_id # None THEN req.correlation_id[1]
    ELSE IF first_header(req) # 0
         THEN Str(req.headers[CORRELATION_ID_HEADERS[first_header(req)]])
    ELSE IF CREATE_CORRELATION_ID_IF_NOT_EXISTS THEN Uuid(count + 1)
    ELSE Str(EMPTY_VALUE)

\* RequestUtil.get_correlation_id(within_formatter=True) with no request: is
\* a new id generated; policy is the generation policy for non-request contexts
resolve_no_request_generates(policy) ==
    policy /\ CREATE_CORRELATION_ID_IF_NOT_EXISTS

\* RequestUtil.get_correlation_id() with no request: the id returned
resolve_no_request(policy, count) ==
    IF resolve_no_request_generates(policy) THEN Uuid(count + 1) ELSE Str(EMPTY_VALUE)

\* RequestUtil.get_correlation_id(request): the request afterwards, with the
\* id cached on it through the adapter's set_correlation_id
resolve_caches(req, count) ==
    IF req.correlation_id # None THEN req
    ELSE IF first_header(req) # 0 \/ CREATE_CORRELATION_ID_IF_NOT_EXISTS
         THEN [req EXCEPT !.correlation_id = Some(resolve(req, count))]
    ELSE req

----------------------------------------------------------------------------
(* RequestResponseDTOBase and DefaultRequestResponseDTO *)

\* lines 129-135 and 150-154
new_dto(kwargs, utcnow) ==
    [_request_start |-> utcnow,
     _response |-> None,
     data |-> Update(kwargs, "request_received_at" :> IsoTime(utcnow))]

\* line 161 with round() in place of the second int()
response_time_ms_rounded(d) ==
    LET whole == IF d >= 0 THEN d \div 1000000 ELSE -((-d) \div 1000000)
    IN  whole * 1000 + (((d % 1000000) + 500) \div 1000)

\* line 161, for a time_delta of d microseconds: timedelta.total_seconds() is
\* d / 10^6, int() cuts towards zero, timedelta.microseconds is d mod 10^6
response_time_ms(d) ==
    LET whole == IF d >= 0 THEN d \div 1000000 ELSE -((-d) \div 1000000)
    IN  whole * 1000 + ((d % 1000000) \div 1000)

\* lines 137-142 and 157-162
dto_completed(d, response, utcnow) ==
    [d EXCEPT !._response = Some(response),
              !.data = Update(Update(@, "response_time_ms" :>
                                            Num(response_time_ms(utcnow - d._request_start))),
                              "response_sent_at" :> IsoTime(utcnow))]

----------------------------------------------------------------------------
(* The formatters *)

\* lines 297-314
_get_extra_fields(record) ==
    LET d == record_dict(record)
        fromArgs == IF record.args THEN "msg" :> record.msg ELSE EmptyDict
        copied == [k \in (DOMAIN d) \ RECORD_ATTR_SKIP_LIST |->
                      IF d[k].t \in EASY_TYPES THEN d[k] ELSE Repr(d[k])]
        fields == Update(fromArgs, copied)
    IN  IF record.props # None /\ record.props[1].t = "dict"
        THEN Update(fields, record.props[1].v)
        ELSE fields

\* lines 286-295
Base_format_log_object(record, common, utcnow) ==
    LET base_obj == ("written_at" :> IsoTime(utcnow)) @@ ("written_ts" :> Num(utcnow * 1000))
    IN  Update(Update(base_obj, common), _get_extra_fields(record))

\* lines 331-347: the fields the request layer computes
request_fields(req, response, correlation_id) ==
       ("type" :> Str("request"))
    @@ ("correlation_id" :> correlation_id)
    @@ ("remote_user" :> Str(EMPTY_VALUE))
    @@ ("request" :> Str("/path"))
    @@ ("referer" :> get_http_header(req, "referer", Str(EMPTY_VALUE)))
    @@ ("x_forwarded_for" :> get_http_header(req, "x-forwarded-for", Str(EMPTY_VALUE)))
    @@ ("protocol" :> Str("HTTP/1.1"))
    @@ ("method" :> Str("GET"))
    @@ ("remote_ip" :> Str("10.0.0.1"))
    @@ ("request_size_b" :> Num(parse_int(req.content_length, -1)))
    @@ ("remote_host" :> Str("10.0.0.1"))
    @@ ("remote_port" :> Num(4711))
    @@ ("response_status" :> Num(response.status))
    @@ ("response_size_b" :> Num(response.size))
    @@ ("response_content_type" :> Str("application/json"))

\* merge_carrier the other way round: the object's own fields win
merge_carrier_under(json_log_object, request_response_data) ==
    Update(request_response_data, json_log_object)

\* line 349: the carrier is merged into the object
merge_carrier(json_log_object, request_response_data) ==
    Update(json_log_object, request_response_data)

\* lines 322-351
Request_format_log_object(record, common, utcnow, req, response, count) ==
    LET json_log_object == Base_format_log_object(record, common, utcnow)
        carrier == record.extra["request_response_data"].v
        fixed == request_fields(req, response, resolve(req, count))
    IN  merge_carrier(Update(json_log_object, fixed), carrier)

\* lines 282-284 for a JSONRequestLogFormatter: the exception the call raises
format_request_error ==
    IF _request_util = None THEN "AttributeError"
    ELSE IF dto = None THEN "AttributeError"
    ELSE IF dto[1]._response = None THEN "AttributeError"
    ELSE ""

\* lines 354-355, on the characters of record.getMessage()
_sanitize_log_msg(message) ==
    [i \in DOMAIN message |->
        IF message[i] \in {"\n", "\r", "\t"} THEN "_" ELSE message[i]]

\* lines 364-376
get_exc_fields(record) ==
       ("exc_info" :> (IF record.exc_info # None
                       THEN Str("Traceback (most recent call last)")
                       ELSE Str(record.exc_text[1])))
    @@ ("filename" :> Str(record.filename))

\* lines 379-387: the fields the Log layer computes
log_fields(record) ==
       ("msg" :> Str(_sanitize_log_msg(record.message)))
    @@ ("type" :> Str("log"))
    @@ ("logger" :> Str(record.name))
    @@ ("thread" :> Str(record.threadName))
    @@ ("level" :> Str(record.levelname))
    @@ ("module" :> Str(record.module))
    @@ ("line_no" :> Num(record.lineno))

\* merge_log_fields the other way round: what the base layer assembled wins
merge_log_fields_under(json_log_object, fields) ==
    Update(fields, json_log_object)

\* line 379: the Log layer's fields are merged into the base layer's object
merge_log_fields(json_log_object, fields) ==
    Update(json_log_object, fields)

\* lines 377-392
JSONLog_format_log_object(record, common, utcnow) ==
    LET json_log_object ==
            merge_log_fields(Base_format_log_object(record, common, utcnow),
                             log_fields(record))
    IN  IF record.exc_info # None \/ record.exc_text # None
        THEN Update(json_log_object, get_exc_fields(record))
        ELSE json_log_object

\* web_resolves without the test of line 402
web_resolves_always(json_log_object) == TRUE

\* line 402: the web layer asks the resolver
web_resolves(json_log_object) ==
    "correlation_id" \notin DOMAIN json_log_object

\* lines 400-406
JSONLogWeb_format_log_object(record, common, utcnow, policy, count) ==
    LET json_log_object == JSONLog_format_log_object(record, common, utcnow)
    IN  IF web_resolves(json_log_object)
        THEN Update(json_log_object,
                    "correlation_id" :> resolve_no_request(policy, count))
        ELSE json_log_object

\* the LogRecord of logger.info(msg, *args, extra=extra) with props set on it
make_record(m, extra, props, exc_info) ==
    [msg |-> Str(m.msg), args |-> m.args, message |-> m.message,
     extra |-> extra, props |-> props, exc_info |-> exc_info, exc_text |-> None,
     name |-> "app", threadName |-> "MainThread", levelname |-> "INFO",
     module |-> "mod", lineno |-> 7, filename |-> "mod.py"]

\* lines 282-284 on the formatter the application constructed as the i-th:
\* formatter_instances[i].format(record)
format_log(i, record, policy, utcnow) ==
    LET cls == formatter_instances[i].cls
        plain == JSONLog_format_log_object(record, base_object_common, utcnow)
        invoked == cls = "JSONLogWebFormatter" /\ web_resolves(plain)
        err == IF invoked /\ _request_util = None THEN "AttributeError" ELSE ""
        generates == invoked /\ err = "" /\ resolve_no_request_generates(policy)
    IN  /\ i \in DOMAIN formatter_instances
        /\ cls \in {"JSONLogFormatter", "JSONLogWebFormatter"}
        /\ generates => uuid_count < MaxUuid
        /\ last' = Call("format_log", err, NoName, << i, record, invoked >>, FALSE)
        /\ log_object' =
               IF err # "" THEN None
               ELSE IF cls = "JSONLogWebFormatter"
                    THEN Some(JSONLogWeb_format_log_object(
                                  record, base_object_common, utcnow, policy, uuid_count))
               ELSE Some(plain)
        /\ uuid_count' = IF generates THEN uuid_count + 1 ELSE uuid_count
        /\ UNCHANGED << setup_vars, request, dto >>

----------------------------------------------------------------------------
(* One request: the framework's hooks create the carrier, complete it and   *)
(* log one record on the request logger                                     *)

Headers == {EmptyDict,
            "X-Correlation-ID" :> "abc-123",
            ("X-Request-ID" :> "req-9") @@ ("referer" :> "http://r")}
CarrierKeys == {"type", "correlation_id", "written_at", "custom"}
ExtraArgs == {EmptyDict, ("custom" :> Str("extra")) @@ ("user" :> Obj("u"))}
PropsArgs == {None, Some(Dict("type" :> Str("props")))}
Deltas == {1500000, 1999999}
Responses == {[status |-> 200, size |-> 12]}
StartTimes == {0}
\* time deltas in microseconds: whole seconds plus a microsecond component
Micros == {0, 1, 999, 1000, 1500, 499999, 500000, 999000, 999999}
TimingDeltas == {sec * 1000000 + us : sec \in 0..MaxSeconds, us \in Micros}

\* request start: DefaultRequestResponseDTO(request)
request_start(headers, content_length, utcnow) ==
    /\ request' = [correlation_id |-> None, headers |-> headers,
                   content_length |-> content_length]
    /\ dto' = Some(new_dto(EmptyDict, utcnow))
    /\ log_object' = None
    /\ last' = Call("request_start", "", NoName, << >>, FALSE)
    /\ UNCHANGED << setup_vars, uuid_count >>

\* a caller stores a key of its own in the carrier
carrier_put(key, value) ==
    /\ dto # None
    /\ dto' = Some([dto[1] EXCEPT !.data = Update(@, key :> value)])
    /\ last' = Call("carrier_put", "", NoName, << key >>, FALSE)
    /\ UNCHANGED << setup_vars, request, log_object, uuid_count >>

on_request_complete(response, d) ==
    /\ dto # None
    /\ dto[1]._response = None
    /\ dto' = Some(dto_completed(dto[1], response, dto[1]._request_start + d))
    /\ last' = Call("on_request_complete", "", NoName, << d >>, FALSE)
    /\ UNCHANGED << setup_vars, request, log_object, uuid_count >>

\* JSONRequestLogFormatter().format(record) for the record of
\* request_logger.info("", extra={'request_response_data': dto, ...})
format_request(extra, props, utcnow) ==
    LET err == format_request_error
        record == [args |-> FALSE, msg |-> Str(""), props |-> props,
                   extra |-> Update(extra, "request_response_data" :> Dict(dto[1].data))]
    IN  /\ last' = Call("format_request", err, NoName, << extra, props >>, FALSE)
        /\ IF err # ""
           THEN /\ log_object' = None
                /\ UNCHANGED << request, uuid_count >>
           ELSE /\ resolve_generates(request) => uuid_count < MaxUuid
                /\ log_object' = Some(Request_format_log_object(
                                          record, base_object_common, utcnow, request,
                                          dto[1]._response[1], uuid_count))
                /\ request' = resolve_caches(request, uuid_count)
                /\ uuid_count' = IF resolve_generates(request)
                                 THEN uuid_count + 1 ELSE uuid_count
        /\ UNCHANGED << setup_vars, dto >>

\* request_passed when the call drops its argument
request_passed_none(req) == None

\* line 64: the request handed to the resolver, None when the caller gave none
request_passed(req) == req

\* lines 57-64: get_correlation_id(request=req), req None or the request in
\* flight
get_correlation_id(req, policy) ==
    LET passed == request_passed(req)
        err == IF _request_util = None THEN "AttributeError" ELSE ""
        generates == IF passed = None THEN resolve_no_request_generates(policy)
                     ELSE resolve_generates(passed[1])
        result == IF passed = None THEN resolve_no_request(policy, uuid_count)
                  ELSE resolve(passed[1], uuid_count)
    IN  /\ req # None => dto # None /\ req = Some(request)
        /\ (err = "" /\ generates) => uuid_count < MaxUuid
        /\ last' = Returned("get_correlation_id", err,
                            << req # None, req # None /\ request.correlation_id # None >>,
                            IF err = "" THEN Some(result) ELSE None)
        /\ request' = IF err = "" /\ passed # None
                      THEN resolve_caches(passed[1], uuid_count) ELSE request
        /\ uuid_count' = IF err = "" /\ generates THEN uuid_count + 1 ELSE uuid_count
        /\ UNCHANGED << setup_vars, dto, log_object >>

----------------------------------------------------------------------------
(* The specification *)

Init ==
    /\ env_toggle \in BOOLEAN
    /\ ENABLE_JSON_LOGGING = env_toggle
    /\ _framework_support_map = ImportedRegistry
    /\ _current_framework = None
    /\ _request_util = None
    /\ _default_formatter = None
    /\ logging_defaultFormatter = "logging.Formatter"
    /\ app_handlers = << "None" >>
    /\ app_configured = FALSE
    /\ request_logger = [level |-> "NOTSET", handlers |-> << >>, parent |-> "root"]
    /\ hooks_installed = FALSE
    /\ request = NoRequest
    /\ dto = None
    /\ log_object = None
    /\ uuid_count = 0
    /\ last = NoCall
    /\ init_done = FALSE
    /\ init_failed = FALSE
    /\ reg_log = << >>
    /\ COMPONENT_ID = Str(EMPTY_VALUE)
    /\ COMPONENT_NAME = Str(EMPTY_VALUE)
    /\ COMPONENT_INSTANCE_INDEX = Num(0)
    /\ base_object_common = EmptyDict
    /\ formatter_instances = << >>

\* a re-registration of flask under another case, or a rejected call
ReRegister ==
    \E name \in {FLASK, << >>} :
        register_framework_support(name, "CustomAppConfigurator",
                                   "CustomInstrumentationConfigurator",
                                   "CustomRequestAdapter", "CustomResponseAdapter")

Initialize ==
    \E name \in InitNames, cf \in FormatterArgs, ej \in BOOLEAN : init(name, cf, ej)

Instrument ==
    \E cf \in FormatterArgs, dc \in DTOArgs : init_request_instrument(cf, dc)

Next == ReRegister \/ Initialize \/ Instrument

Spec == Init /\ [][Next]_vars

(* The registry on its own: every register call, and __init by name *)

Register ==
    \E name \in RegisterNames, c \in RegisterClasses :
        register_framework_support(name, c[1], c[2], c[3], c[4])

InitializeByName ==
    \E name \in LookupNames : init(name, "None", FALSE)

NextRegistry == Register \/ InitializeByName

SpecRegistry == Init /\ [][NextRegistry]_vars

(* One request under a web framework *)

InitializeWeb == \E ej \in BOOLEAN : init(FLASK, "None", ej)

RequestStart ==
    \E h \in Headers, t \in StartTimes :
        request_start(h, IF h = EmptyDict THEN "-" ELSE "12", t)

CarrierPut ==
    \E k \in CarrierKeys : carrier_put(k, Str("carrier"))

OnRequestComplete ==
    \E r \in Responses, d \in Deltas : on_request_complete(r, d)

FormatRequest ==
    \E e \in ExtraArgs, p \in PropsArgs : format_request(e, p, 2000000)

GetCorrelationId == get_correlation_id(Some(request), FALSE)

NextRequest ==
    \/ InitializeWeb \/ RequestStart \/ CarrierPut \/ OnRequestComplete
    \/ FormatRequest \/ GetCorrelationId

SpecRequest == Init /\ [][NextRequest]_vars

(* The accessors in every state of initialisation *)

InitializeAccess ==
    \E name \in {NoName, FLASK}, ej \in BOOLEAN : init(name, "None", ej)

InstrumentAccess ==
    \E cf \in {"None", "CustomFormatter"} :
        init_request_instrument(cf, "DefaultRequestResponseDTO")

GetRequestLogger == get_request_logger

GetCorrelationIdNoRequest == \E policy \in BOOLEAN : get_correlation_id(None, policy)

NextAccess ==
    InitializeAccess \/ InstrumentAccess \/ GetRequestLogger \/ GetCorrelationIdNoRequest

SpecAccess == Init /\ [][NextAccess]_vars

(* Application log records through formatters the application constructs *)

LogMsgs == {[msg |-> << "h", "i" >>, args |-> FALSE, message |-> << "h", "i" >>],
            [msg |-> << "a", "%", "s" >>, args |-> TRUE, message |-> << "a", "\n", "\t" >>]}
PlainMsg == [msg |-> << "h", "i" >>, args |-> FALSE, message |-> << "h", "i" >>]
ExtraWithId == ("correlation_id" :> Str("from-extra")) @@ ("user" :> Obj("u"))
PropsOverLayers ==
    Dict(("type" :> Str("props")) @@ ("msg" :> Str(<< "p" >>))
             @@ ("written_at" :> Str("props")) @@ ("custom" :> Str("props")))
PropsWithId == Dict(("correlation_id" :> Str("from-props")) @@ ("user" :> Str("props")))
PropsOverExc == Dict(("exc_info" :> Str("props")) @@ ("level" :> Str("props")))
\* records without extra fields and props, with either, with both, with
\* exception info, and with a props attribute that is no dict
LogRecords ==
    {make_record(m, EmptyDict, None, None) : m \in LogMsgs}
        \cup {make_record(PlainMsg, EmptyDict, None, Some("exc_info")),
              make_record(PlainMsg, ExtraWithId, None, None),
              make_record(PlainMsg, EmptyDict, Some(PropsOverLayers), None),
              make_record(PlainMsg, EmptyDict, Some(PropsWithId), None),
              make_record(PlainMsg, ExtraWithId, Some(PropsWithId), None),
              make_record(PlainMsg, EmptyDict, Some(PropsOverExc), Some("exc_info")),
              make_record(PlainMsg, EmptyDict, Some(Str("no dict")), None)}

InitializeLog == \E name \in {NoName, FLASK} : init(name, "None", TRUE)

ConstructFormatter ==
    \E cls \in {"JSONLogFormatter", "JSONLogWebFormatter"} : construct_formatter(cls)

FormatLog ==
    \E i \in 1..MaxFormatters, r \in LogRecords, policy \in BOOLEAN :
        format_log(i, r, policy, 2000000)

NextLog == InitializeLog \/ ConstructFormatter \/ FormatLog

SpecLog == Init /\ [][NextLog]_vars

(* The component identity settings and the formatters constructed under them *)

ComponentSettings ==
    {<< Str(EMPTY_VALUE), Str(EMPTY_VALUE), Num(0) >>,
     << Str("svc"), Str(EMPTY_VALUE), Num(0) >>,
     << Str("svc2"), Str("api"), Num(1) >>}

SetComponent == \E c \in ComponentSettings : set_component(c[1], c[2], c[3])

ConstructLogFormatter == construct_formatter("JSONLogFormatter")

FormatPlainLog ==
    \E i \in 1..MaxFormatters, m \in LogMsgs :
        format_log(i, make_record(m, EmptyDict, None, None), FALSE, 2000000)

NextComponent == SetComponent \/ ConstructLogFormatter \/ FormatPlainLog

SpecComponent == Init /\ [][NextComponent]_vars

(* The response time of a carrier over a range of time deltas *)

OnRequestCompleteTimed ==
    \E r \in Responses, d \in TimingDeltas : on_request_complete(r, d)

NextTiming == RequestStart \/ OnRequestCompleteTimed

SpecTiming == Init /\ [][NextTiming]_vars

----------------------------------------------------------------------------
(* Properties *)

init_called == init_done \/ init_failed

valid_init_args(name, custom_formatter, map) ==
    /\ custom_formatter = "None" \/ IsSubclass(custom_formatter, "logging.Formatter")
    /\ Truthy(name) => Lower(name) \in DOMAIN map

\* C1: once an __init call has completed, with a framework name or without
\* one, every later __init call raises the RuntimeError of line 181.
C1_SecondInitFails ==
    [][(init_done /\ last'.op = "init") => last'.err = "RuntimeError"]_vars

\* C2: once an __init call has completed, no later call changes the active
\* framework, the default formatter class or the JSON-enabled flag.
C2_StateFrozenAfterInit ==
    [][init_done => /\ _current_framework' = _current_framework
                    /\ _default_formatter' = _default_formatter
                    /\ ENABLE_JSON_LOGGING' = ENABLE_JSON_LOGGING]_vars

\* C3: while __init has never been called, init_request_instrument raises the
\* RuntimeError of line 233 and has no effect: the configurator has not run
\* and no logger has a new handler or formatter.
C3_InstrumentBeforeInit ==
    (~init_called /\ last.op = "init_request_instrument")
        => /\ last.err = "RuntimeError"
           /\ ~hooks_installed
           /\ request_logger = [level |-> "NOTSET", handlers |-> << >>, parent |-> "root"]
           /\ app_handlers = << "None" >>
           /\ logging_defaultFormatter = "logging.Formatter"

C3_Witness ==
    /\ ~init_called
    /\ last.op = "init_request_instrument"
    /\ last.err = "RuntimeError"
    /\ last.cls = << "None", "DefaultRequestResponseDTO" >>

\* C4: when the ENABLE_JSON_LOGGING toggle was set at import and __init is
\* called with enable_json left at its default, JSON mode is on afterwards:
\* the flag is true and logging._defaultFormatter is the selected class.
C4_EnvToggleEnablesJson ==
    (env_toggle /\ last.op = "init" /\ last.err = "" /\ ~last.enable_json)
        => /\ ENABLE_JSON_LOGGING
           /\ _default_formatter = Some(logging_defaultFormatter)

\* C5: when __init completes with JSON mode off, the selected formatter is
\* neither logging._defaultFormatter nor the formatter of a handler of a
\* logger that already existed.
C5_PlainTextWhenDisabled ==
    (last.op = "init" /\ last.err = "" /\ ~ENABLE_JSON_LOGGING)
        => /\ _default_formatter # Some(logging_defaultFormatter)
           /\ \A i \in DOMAIN app_handlers : _default_formatter # Some(app_handlers[i])

\* C6: a completed __init call leaves as default formatter the custom class
\* when one was passed, else JSONLogWebFormatter when a framework name was
\* passed, else JSONLogFormatter.
C6_FormatterSelection ==
    (last.op = "init" /\ last.err = "")
        => _default_formatter =
               Some(IF last.cls[1] # "None" THEN last.cls[1]
                    ELSE IF Truthy(last.name) THEN "JSONLogWebFormatter"
                    ELSE "JSONLogFormatter")

C6_Witness ==
    /\ last.op = "init" /\ last.err = ""
    /\ last.cls = << "None" >> /\ last.name = FLASK
    /\ _default_formatter = Some("JSONLogWebFormatter")

\* the entry registered last under a case variant of key k: the latest such
\* call of reg_log, else the registration made at import
latest_registered(k) ==
    LET calls == {i \in DOMAIN reg_log : Lower(reg_log[i].name) = k}
    IN  IF calls = {} THEN ImportedRegistry[k]
        ELSE reg_log[CHOOSE i \in calls : \A j \in calls : j <= i].entry

\* C7: the registry has one entry for each lower-cased registered name, the
\* one registered last under any case variant; a call with valid arguments
\* never fails; __init with any case variant of a registered name resolves
\* to that entry.
C7_RegistryLatestPerName ==
    /\ DOMAIN _framework_support_map =
           (DOMAIN ImportedRegistry) \cup {Lower(reg_log[i].name) : i \in DOMAIN reg_log}
    /\ \A k \in DOMAIN _framework_support_map :
           _framework_support_map[k] = latest_registered(k)
    /\ (last.op = "register" /\ Truthy(last.name) /\ last.cls \in ValidClasses)
           => last.err = ""
    /\ (last.op = "init" /\ Truthy(last.name)
            /\ Lower(last.name) \in DOMAIN _framework_support_map)
           => \/ /\ last.err = ""
                 /\ _current_framework = Some(_framework_support_map[Lower(last.name)])
              \/ /\ last.err = "RuntimeError"
                 /\ _current_framework # None

C7_Witness ==
    /\ Len(reg_log) = 2
    /\ reg_log[1].name # reg_log[2].name
    /\ Lower(reg_log[1].name) = Lower(reg_log[2].name)
    /\ reg_log[1].entry # reg_log[2].entry
    /\ _framework_support_map[Lower(reg_log[1].name)] = reg_log[2].entry
    /\ last.op = "init" /\ last.err = "" /\ last.name = reg_log[1].name

\* C8: a register call with an empty or missing name, or with a class that
\* fails validation, raises and leaves the registry as it was; a call with a
\* name, valid classes and no app configurator is accepted.
C8_RejectedRegisterLeavesRegistry ==
    [][(last'.op = "register")
          => /\ (~Truthy(last'.name) \/ last'.cls \in InvalidClasses)
                    => /\ last'.err # ""
                       /\ _framework_support_map' = _framework_support_map
             /\ (Truthy(last'.name) /\ last'.cls \in ValidClasses /\ last'.cls[1] = "None")
                    => /\ last'.err = ""
                       /\ Lower(last'.name) \in DOMAIN _framework_support_map']_vars

C8_Witness ==
    /\ last.op = "register" /\ last.err = "RuntimeError"
    /\ Truthy(last.name) /\ last.cls \in InvalidClasses
    /\ Len(reg_log) = 1
    /\ _framework_support_map = registry_put(ImportedRegistry, reg_log[1].name, reg_log[1].entry)

\* C9: an __init call with an unregistered framework name or with a custom
\* formatter that is no formatter class raises and sets neither the active
\* framework nor the default formatter; as long as only such calls were made
\* the process is uninitialised: init_request_instrument raises, and an __init
\* call with valid arguments completes.
C9_FailedInitLeavesUninitialised ==
    /\ []((init_failed /\ ~init_done)
             => _current_framework = None /\ _default_formatter = None)
    /\ [][(~init_done /\ last'.op = "init")
             => IF valid_init_args(last'.name, last'.cls[1], _framework_support_map)
                THEN last'.err = "" /\ init_done'
                ELSE /\ last'.err # ""
                     /\ _current_framework' = None
                     /\ _default_formatter' = None]_vars
    /\ [][(init_failed /\ ~init_done /\ last'.op = "init_request_instrument")
             => last'.err = "RuntimeError" /\ request_logger' = request_logger]_vars

C9_Witness ==
    /\ init_failed /\ init_done
    /\ last.op = "init" /\ last.err = ""
    /\ _current_framework # None

\* C10: every key of the carrier is a key of the object the request formatter
\* assembles, with the carrier's value, whatever else defines that key.
C10_CarrierWins ==
    (last.op = "format_request" /\ last.err = "")
        => /\ log_object # None
           /\ \A k \in DOMAIN dto[1].data :
                  /\ k \in DOMAIN log_object[1]
                  /\ log_object[1][k] = dto[1].data[k]

C10_Witness ==
    /\ last.op = "format_request" /\ last.err = ""
    /\ {"type", "correlation_id", "written_at", "custom"} \subseteq DOMAIN dto[1].data
    /\ "custom" \in DOMAIN last.cls[1]
    /\ last.cls[2] # None
    /\ log_object[1]["type"] = Str("carrier")
    /\ log_object[1]["response_status"] = Num(200)

\* C11: a carrier completed d microseconds after its start stores as
\* response_time_ms the whole seconds of d times 1000 plus the whole
\* milliseconds of d's microsecond component: d itself when d is a whole
\* number of milliseconds (1500 for 1500 ms, 1999 for 1999 ms), and never a
\* value rounded up.
C11_ResponseTimeFloors ==
    (last.op = "on_request_complete")
        => LET d == last.cls[1]
               stored == dto[1].data["response_time_ms"]
           IN  /\ d >= 0
               /\ stored.t = "int"
               /\ stored.v = (d \div 1000000) * 1000 + ((d % 1000000) \div 1000)
               /\ (d % 1000 = 0) => stored.v * 1000 = d
               /\ stored.v * 1000 <= d /\ d < (stored.v + 1) * 1000

C11_Witness ==
    /\ last.op = "on_request_complete"
    /\ last.cls = << 1999999 >>
    /\ dto[1].data["response_time_ms"] = Num(1999)

\* the keys of the component identity fields and of the Log layer's fields
IdentityKeys == {"component_id", "component_name", "component_instance_idx"}
LogLayerKeys == {"msg", "type", "logger", "thread", "level", "module", "line_no"}

\* C12: for a record without exception info, extra fields and props, the
\* object a JSONLogFormatter assembles has exactly the keys written_at,
\* written_ts, the component identity fields configured with a non-default
\* value (when the formatter was constructed, or at the time of the call),
\* msg, type, logger, thread, level, module and line_no.
C12_PlainRecordKeys ==
    (/\ last.op = "format_log" /\ last.err = ""
     /\ formatter_instances[last.cls[1]].cls = "JSONLogFormatter"
     /\ last.cls[2].exc_info = None /\ last.cls[2].exc_text = None
     /\ last.cls[2].extra = EmptyDict /\ last.cls[2].props = None)
        => \E identity \in
                  {DOMAIN formatter_instances[last.cls[1]].configured,
                   DOMAIN BaseJSONFormatter_init(EmptyDict, COMPONENT_ID, COMPONENT_NAME,
                                                 COMPONENT_INSTANCE_INDEX)} :
               DOMAIN log_object[1] =
                   {"written_at", "written_ts"} \cup identity \cup LogLayerKeys

\* C19: the component identity fields in the object a formatter assembles are
\* the ones configured with a non-default value when that formatter was
\* constructed, with the values they had then: a formatter constructed later
\* under other settings adds none and changes none, and a field reset to its
\* default is not emitted by a formatter constructed afterwards.
C19_IdentityFixedAtConstruction ==
    (last.op = "format_log" /\ last.err = "")
        => LET configured == formatter_instances[last.cls[1]].configured
           IN  \A k \in IdentityKeys :
                   IF k \in DOMAIN configured
                   THEN k \in DOMAIN log_object[1] /\ log_object[1][k] = configured[k]
                   ELSE k \notin DOMAIN log_object[1]

\* the last call formatted a record on a formatter of class cls and produced
\* an object
formatted_by(cls) ==
    /\ last.op = "format_log" /\ last.err = ""
    /\ formatter_instances[last.cls[1]].cls = cls

\* record.props is a mapping
has_props(record) == record.props # None /\ record.props[1].t = "dict"

\* C14 as claimed: every entry of a record's props mapping is in the object a
\* JSONLogFormatter assembles, with the value props gives it, also under the
\* keys the Log layer writes (msg, type, logger, thread, level, module,
\* line_no).
C14_PropsOverrideEveryField ==
    (formatted_by("JSONLogFormatter") /\ has_props(last.cls[2]))
        => LET props == last.cls[2].props[1].v
           IN  \A k \in DOMAIN props :
                   k \in DOMAIN log_object[1] /\ log_object[1][k] = props[k]

\* C14: every key of a record's props mapping is in the object a
\* JSONLogFormatter assembles; it has the value props gives it, over the
\* time stamps, the identity fields and the extra fields, unless it is one of
\* the keys the Log layer writes (msg, type, logger, thread, level, module,
\* line_no, and exc_info and filename for a record with exception info):
\* under those the Log layer's value stands.
C14_PropsOverrideBaseFields ==
    (formatted_by("JSONLogFormatter") /\ has_props(last.cls[2]))
        => LET record == last.cls[2]
               props == record.props[1].v
               exc == record.exc_info # None \/ record.exc_text # None
           IN  \A k \in DOMAIN props :
                   /\ k \in DOMAIN log_object[1]
                   /\ log_object[1][k] =
                          IF k \in LogLayerKeys THEN log_fields(record)[k]
                          ELSE IF exc /\ k \in {"exc_info", "filename"}
                               THEN get_exc_fields(record)[k]
                          ELSE props[k]

C14_Witness ==
    /\ formatted_by("JSONLogFormatter")
    /\ last.cls[2].props = Some(PropsOverLayers)
    /\ log_object[1]["type"] = Str("log")
    /\ log_object[1]["msg"] = Str(<< "h", "i" >>)
    /\ log_object[1]["written_at"] = Str("props")
    /\ log_object[1]["custom"] = Str("props")

\* the correlation id a record supplies: the one of props, else the one of
\* the extra fields, else None
supplied_correlation_id(record) ==
    IF has_props(record) /\ "correlation_id" \in DOMAIN record.props[1].v
    THEN Some(record.props[1].v["correlation_id"])
    ELSE IF "correlation_id" \in DOMAIN record.extra
         THEN Some(record.extra["correlation_id"])
    ELSE None

\* C15: the object a JSONLogWebFormatter assembles has the key
\* correlation_id; when the record supplies one in its extra fields or its
\* props, that value is kept and the resolver is not called (no id is
\* generated); otherwise the value is what the resolver returns without a
\* request: the sentinel or a newly generated id.
C15_WebCorrelationId ==
    /\ [](formatted_by("JSONLogWebFormatter")
             => LET supplied == supplied_correlation_id(last.cls[2])
                IN  /\ "correlation_id" \in DOMAIN log_object[1]
                    /\ IF supplied # None
                       THEN /\ log_object[1]["correlation_id"] = supplied[1]
                            /\ ~last.cls[3]
                       ELSE /\ last.cls[3]
                            /\ log_object[1]["correlation_id"]
                                   \in {Str(EMPTY_VALUE), Uuid(uuid_count)})
    /\ [][(/\ last'.op = "format_log" /\ last'.err = ""
           /\ formatter_instances[last'.cls[1]].cls = "JSONLogWebFormatter")
             => IF supplied_correlation_id(last'.cls[2]) # None
                THEN uuid_count' = uuid_count
                ELSE \/ /\ uuid_count' = uuid_count
                        /\ log_object'[1]["correlation_id"] = Str(EMPTY_VALUE)
                     \/ /\ uuid_count' = uuid_count + 1
                        /\ log_object'[1]["correlation_id"] = Uuid(uuid_count')]_vars

C15_Witness ==
    /\ formatted_by("JSONLogWebFormatter")
    /\ last.cls[2].extra = ExtraWithId
    /\ last.cls[2].props = Some(PropsWithId)
    /\ log_object[1]["correlation_id"] = Str("from-props")
    /\ ~last.cls[3]
    /\ uuid_count = 1

\* C13: get_correlation_id for the request in flight returns the id that is
\* cached on the request afterwards, read from a header or generated; a
\* later call for the same request returns the cached id, generates none and
\* leaves the request as it is.
C13_ResolveTwiceSameId ==
    /\ []((last.op = "get_correlation_id" /\ last.err = "" /\ last.cls[1])
             => request.correlation_id = last.result)
    /\ [][(/\ last'.op = "get_correlation_id" /\ last'.err = "" /\ last'.cls[1]
           /\ request.correlation_id # None)
             => /\ last'.cls[2]
                /\ last'.result = request.correlation_id
                /\ request' = request
                /\ uuid_count' = uuid_count]_vars

C13_Witness ==
    /\ last.op = "get_correlation_id" /\ last.err = ""
    /\ last.cls = << TRUE, TRUE >>
    /\ last.result = Some(Uuid(1))
    /\ request.correlation_id = Some(Uuid(1))
    /\ uuid_count = 1

\* C16: after an init_request_instrument call that went through, with JSON
\* mode on or off, the request logger has no parent to hand records to, and
\* each of its handlers has the request formatter: the custom class when one
\* was passed, else JSONRequestLogFormatter.
C16_RequestLoggerIsolated ==
    (last.op = "init_request_instrument" /\ last.err = "")
        => /\ request_logger.parent = "None"
           /\ request_logger.handlers # << >>
           /\ \A i \in DOMAIN request_logger.handlers :
                  request_logger.handlers[i] =
                      (IF last.cls[1] # "None" THEN last.cls[1]
                       ELSE "JSONRequestLogFormatter")

C16_Witness ==
    /\ last.op = "init_request_instrument" /\ last.err = ""
    /\ last.cls[1] = "CustomFormatter"
    /\ ~ENABLE_JSON_LOGGING
    /\ request_logger.parent = "None"
    /\ request_logger.handlers = << "CustomFormatter", "CustomFormatter" >>

\* C17: get_request_logger raises the RuntimeError of line 258 or 262 as long
\* as no init_request_instrument call went through (before __init, after an
\* __init without framework, after an __init with one), and returns the
\* request logger once such a call went through.
C17_RequestLoggerAccessor ==
    (last.op = "get_request_logger")
        => IF hooks_installed
           THEN last.err = "" /\ last.result = Some(request_logger)
           ELSE last.err = "RuntimeError" /\ last.result = None

C17_Witness ==
    /\ last.op = "get_request_logger" /\ last.err = "RuntimeError"
    /\ _current_framework # None
    /\ init_done /\ ~hooks_installed

\* C18: get_correlation_id without a request returns a string, a generated id
\* or the sentinel, and raises nothing, whether __init was never called, was
\* called without a framework or with one.
C18_CorrelationIdWithoutRequest ==
    (last.op = "get_correlation_id" /\ ~last.cls[1])
        => /\ last.err = ""
           /\ last.result # None
           /\ last.result[1] \in {Str(EMPTY_VALUE)} \cup {Uuid(n) : n \in 1..uuid_count}

\* C20: once an init_request_instrument call went through, the request
\* logger has one handler, however many such calls were made.
C20_OneRequestHandler ==
    hooks_installed => Len(request_logger.handlers) = 1

====
